---- MODULE Spec2Model ----
(***************************************************************************)
(* Engine-aware layer factory (src/src/caffe/layer_factory.cpp), the layer *)
(* registry it registers its creators with, and the slice layer declared   *)
(* in src/include/caffe/layers/slice_layer.hpp.                            *)
(*                                                                         *)
(* Three specifications share the module:                                  *)
(*   SpecFactory   the seven Get<Kind>Layer creators, called with every    *)
(*                 descriptor of a bounded set, in both builds             *)
(*                 (USE_CUDNN defined or not);                             *)
(*   SpecRegistry  static registration of the creators;                    *)
(*   SpecSlice     LayerSetUp / Reshape / Backward of the slice layer.     *)
(***************************************************************************)
EXTENDS Integers, Sequences, FiniteSets

VARIABLES
    \* ---- factory ----
    USE_CUDNN,          \* build flag: the accelerated backend is compiled in
    creator,            \* the creator of the last call ("none" before any)
    param,              \* the LayerParameter handed to it
    ret,                \* what the call did: layer returned, fatal, log lines
    \* ---- registry ----
    WITH_PYTHON_LAYER,  \* build flag: the Python layer is compiled in
    registry,           \* set of entries [type, creator]
    registered,         \* how many REGISTER_LAYER_CREATOR lines of the file ran
    reg_fatal,          \* a registration ended in a fatal error
    reg_last,           \* the last AddCreator call [type, creator]
    \* ---- slice layer ----
    layer_state,        \* uninitialized / configured / shaped / fatal
    slice_param,        \* descriptor: [axis, slice_point]
    num_top,            \* number of declared outputs (top.size())
    shape_changed,      \* the last Reshape saw another input shape than before
    slice_axis_,
    slice_point_,
    num_slices_,
    slice_size_,
    outer_count,
    count_,
    bottom_shape,       \* shape of the single input
    top_shape,          \* shapes of the outputs
    top_diff,           \* gradient buffers of the outputs
    bottom_diff,        \* gradient buffer of the input
    backward_done       \* the last Backward since Reshape: none/cpu/gpu/skipped

factory_vars  == <<USE_CUDNN, creator, param, ret>>
registry_vars == <<WITH_PYTHON_LAYER, registry, registered, reg_fatal, reg_last>>
slice_vars    == <<layer_state, slice_param, num_top, shape_changed, slice_axis_,
                   slice_point_, num_slices_, slice_size_, outer_count, count_,
                   bottom_shape, top_shape, top_diff, bottom_diff, backward_done>>
vars == <<factory_vars, registry_vars, slice_vars>>

Range(s) == {s[i] : i \in DOMAIN s}

SeqsUpTo(S, n) == UNION {[1..k -> S] : k \in 0..n}

(***************************************************************************)
(* Bounds of the model.                                                    *)
(***************************************************************************)
MaxDilations == 2   \* length of the repeated field `dilation`
MaxDilation  == 2   \* largest dilation factor
MaxTopSize   == 2   \* largest number of top blobs of a factory descriptor
MaxDim       == 4   \* largest extent of the first two axes of the slice input
MaxInner     == 2   \* largest extent of its last axis
MaxTops      == 3   \* largest number of outputs of the slice layer

\* cuDNN's limit on the LRN neighbourhood, compared against at line 157.
CUDNN_LRN_MAX_N == 16

(***************************************************************************)
(* Descriptors.                                                            *)
(***************************************************************************)
\* The engine enums of caffe.proto, and a value that is none of them.
Engines == {"DEFAULT", "CAFFE", "CUDNN", "OTHER"}

LayerNames == {"layerA", "layerB"}

PoolMethods == {"MAX", "AVE", "STOCHASTIC"}

NormRegions == {"ACROSS_CHANNELS", "WITHIN_CHANNEL"}

LocalSizes == {1, 5, CUDNN_LRN_MAX_N - 1, CUDNN_LRN_MAX_N, CUDNN_LRN_MAX_N + 1}

\* A LayerParameter with every sub-parameter at its default.
DefaultParam(name, tops) ==
    [name |-> name, top_size |-> tops,
     convolution_param |-> [engine |-> "DEFAULT", dilation |-> <<>>],
     pooling_param     |-> [engine |-> "DEFAULT", pool |-> "MAX"],
     lrn_param         |-> [engine |-> "DEFAULT",
                            norm_region |-> "ACROSS_CHANNELS", local_size |-> 5],
     relu_param        |-> [engine |-> "DEFAULT"],
     sigmoid_param     |-> [engine |-> "DEFAULT"],
     softmax_param     |-> [engine |-> "DEFAULT"],
     tanh_param        |-> [engine |-> "DEFAULT"]]

(***************************************************************************)
(* Outcomes of a creator call.  LOG(FATAL) ends the process: nothing is    *)
(* returned and no later statement runs.  A log line is its severity and   *)
(* the pieces streamed into it.                                            *)
(***************************************************************************)
Return(layer, engine, log) ==
    [layer |-> layer, fatal |-> FALSE, engine |-> engine, log |-> log]

Fatal(engine, msg) ==
    [layer |-> "NULL", fatal |-> TRUE, engine |-> engine,
     log |-> <<[severity |-> "FATAL", msg |-> msg]>>]

UnknownEngine(p, engine) ==
    Fatal(engine, <<"Layer ", p.name, " has unknown engine.">>)

(***************************************************************************)
(* GetConvolutionLayer, layer_factory.cpp lines 38-81.                     *)
(***************************************************************************)
\* Lines 48-53: some dilation factor is larger than 1.
use_dilation(conv_param) ==
    \E i \in 1..Len(conv_param.dilation) : conv_param.dilation[i] > 1

ConvolutionEngine_IgnoresDilation(p, cudnn) ==
    LET engine == p.convolution_param.engine
    IN  IF engine = "DEFAULT"
        THEN IF cudnn THEN "CUDNN" ELSE "CAFFE"
        ELSE engine

\* Lines 56-63: DEFAULT becomes CAFFE, or CUDNN in a cuDNN build without
\* dilation.
ConvolutionEngine(p, cudnn) ==
    LET engine == p.convolution_param.engine
    IN  IF engine = "DEFAULT"
        THEN IF cudnn /\ ~use_dilation(p.convolution_param)
             THEN "CUDNN" ELSE "CAFFE"
        ELSE engine

GetConvolutionLayer_DilationFallsBack(p, cudnn) ==
    LET engine == ConvolutionEngine(p, cudnn)
    IN  IF engine = "CAFFE"
        THEN Return("ConvolutionLayer", engine, <<>>)
        ELSE IF cudnn /\ engine = "CUDNN"
        THEN IF use_dilation(p.convolution_param)
             THEN Return("ConvolutionLayer", engine, <<>>)
             ELSE Return("CuDNNConvolutionLayer", engine, <<>>)
        ELSE UnknownEngine(p, engine)

GetConvolutionLayer(p, cudnn) ==
    LET engine == ConvolutionEngine(p, cudnn)
    IN  IF engine = "CAFFE"
        THEN Return("ConvolutionLayer", engine, <<>>)
        ELSE IF cudnn /\ engine = "CUDNN"
        THEN IF use_dilation(p.convolution_param)
             THEN Fatal(engine,
                        <<"CuDNN doesn't support the dilated convolution at Layer ",
                          p.name>>)
             ELSE Return("CuDNNConvolutionLayer", engine, <<>>)
        ELSE UnknownEngine(p, engine)

(***************************************************************************)
(* GetPoolingLayer, lines 88-124.                                          *)
(***************************************************************************)
\* Lines 92-97.
PoolingEngine(p, cudnn) ==
    LET engine == p.pooling_param.engine
    IN  IF engine = "DEFAULT"
        THEN IF cudnn THEN "CUDNN" ELSE "CAFFE"
        ELSE engine

GetPoolingLayer_MaxOnCuDNN(p, cudnn) ==
    LET engine == PoolingEngine(p, cudnn)
    IN  IF engine = "CAFFE"
        THEN Return("PoolingLayer", engine, <<>>)
        ELSE IF cudnn /\ engine = "CUDNN"
        THEN IF p.top_size > 1
             THEN Return("PoolingLayer", engine,
                         <<[severity |-> "INFO",
                            msg |-> <<"cuDNN does not support multiple tops. ",
                                      "Using Caffe's own pooling layer.">>]>>)
             ELSE Return("CuDNNPoolingLayer", engine, <<>>)
        ELSE UnknownEngine(p, engine)

GetPoolingLayer_MultipleTopsOnCuDNN(p, cudnn) ==
    LET engine == PoolingEngine(p, cudnn)
    IN  IF engine = "CAFFE"
        THEN Return("PoolingLayer", engine, <<>>)
        ELSE IF cudnn /\ engine = "CUDNN"
        THEN IF p.pooling_param.pool = "MAX"
             THEN Return("PoolingLayer", engine, <<>>)
             ELSE Return("CuDNNPoolingLayer", engine, <<>>)
        ELSE UnknownEngine(p, engine)

GetPoolingLayer(p, cudnn) ==
    LET engine == PoolingEngine(p, cudnn)
    IN  IF engine = "CAFFE"
        THEN Return("PoolingLayer", engine, <<>>)
        ELSE IF cudnn /\ engine = "CUDNN"
        THEN IF p.top_size > 1
             THEN Return("PoolingLayer", engine,
                         <<[severity |-> "INFO",
                            msg |-> <<"cuDNN does not support multiple tops. ",
                                      "Using Caffe's own pooling layer.">>]>>)
             ELSE IF p.pooling_param.pool = "MAX"
             THEN Return("PoolingLayer", engine, <<>>)
             ELSE Return("CuDNNPoolingLayer", engine, <<>>)
        ELSE UnknownEngine(p, engine)

(***************************************************************************)
(* GetLRNLayer, lines 131-168.                                             *)
(***************************************************************************)
\* Lines 136-142.
LRNEngine(p, cudnn) ==
    LET engine == p.lrn_param.engine
    IN  IF engine = "DEFAULT"
        THEN IF cudnn THEN "CUDNN" ELSE "CAFFE"
        ELSE engine

GetLRNLayer_LimitOffByOne(p, cudnn) ==
    LET engine == LRNEngine(p, cudnn)
    IN  IF engine = "CAFFE"
        THEN Return("LRNLayer", engine, <<>>)
        ELSE IF cudnn /\ engine = "CUDNN"
        THEN IF p.lrn_param.norm_region = "WITHIN_CHANNEL"
             THEN Return("CuDNNLCNLayer", engine, <<>>)
             ELSE IF p.lrn_param.local_size >= CUDNN_LRN_MAX_N
             THEN Return("LRNLayer", engine, <<>>)
             ELSE Return("CuDNNLRNLayer", engine, <<>>)
        ELSE UnknownEngine(p, engine)

GetLRNLayer(p, cudnn) ==
    LET engine == LRNEngine(p, cudnn)
    IN  IF engine = "CAFFE"
        THEN Return("LRNLayer", engine, <<>>)
        ELSE IF cudnn /\ engine = "CUDNN"
        THEN IF p.lrn_param.norm_region = "WITHIN_CHANNEL"
             THEN Return("CuDNNLCNLayer", engine, <<>>)
             ELSE IF p.lrn_param.local_size > CUDNN_LRN_MAX_N
             THEN Return("LRNLayer", engine, <<>>)
             ELSE Return("CuDNNLRNLayer", engine, <<>>)
        ELSE UnknownEngine(p, engine)

(***************************************************************************)
(* The activation and softmax creators, lines 175-284: the same shape,     *)
(* each with its own sub-parameter and its own pair of classes.            *)
(***************************************************************************)
\* Lines 179-184, 208-213, 237-242, 266-271.
DefaultEngine(engine, cudnn) ==
    IF engine = "DEFAULT"
    THEN IF cudnn THEN "CUDNN" ELSE "CAFFE"
    ELSE engine

GetReLULayer_NoCuDNNCase(p, cudnn) ==
    LET engine == DefaultEngine(p.relu_param.engine, cudnn)
    IN  IF engine = "CAFFE"
        THEN Return("ReLULayer", engine, <<>>)
        ELSE UnknownEngine(p, engine)

GetReLULayer(p, cudnn) ==
    LET engine == DefaultEngine(p.relu_param.engine, cudnn)
    IN  IF engine = "CAFFE"
        THEN Return("ReLULayer", engine, <<>>)
        ELSE IF cudnn /\ engine = "CUDNN"
        THEN Return("CuDNNReLULayer", engine, <<>>)
        ELSE UnknownEngine(p, engine)

GetSigmoidLayer(p, cudnn) ==
    LET engine == DefaultEngine(p.sigmoid_param.engine, cudnn)
    IN  IF engine = "CAFFE"
        THEN Return("SigmoidLayer", engine, <<>>)
        ELSE IF cudnn /\ engine = "CUDNN"
        THEN Return("CuDNNSigmoidLayer", engine, <<>>)
        ELSE UnknownEngine(p, engine)

GetSoftmaxLayer(p, cudnn) ==
    LET engine == DefaultEngine(p.softmax_param.engine, cudnn)
    IN  IF engine = "CAFFE"
        THEN Return("SoftmaxLayer", engine, <<>>)
        ELSE IF cudnn /\ engine = "CUDNN"
        THEN Return("CuDNNSoftmaxLayer", engine, <<>>)
        ELSE UnknownEngine(p, engine)

GetTanHLayer(p, cudnn) ==
    LET engine == DefaultEngine(p.tanh_param.engine, cudnn)
    IN  IF engine = "CAFFE"
        THEN Return("TanHLayer", engine, <<>>)
        ELSE IF cudnn /\ engine = "CUDNN"
        THEN Return("CuDNNTanHLayer", engine, <<>>)
        ELSE UnknownEngine(p, engine)

(***************************************************************************)
(* The descriptors the creators are called with.                           *)
(***************************************************************************)
Dilations == SeqsUpTo(1..MaxDilation, MaxDilations)

ConvolutionParams ==
    {[DefaultParam(n, 1) EXCEPT
        !.convolution_param = [engine |-> e, dilation |-> d]] :
        n \in LayerNames, e \in Engines, d \in Dilations}

PoolingParams ==
    {[DefaultParam(n, t) EXCEPT !.pooling_param = [engine |-> e, pool |-> m]] :
        n \in LayerNames, t \in 1..MaxTopSize, e \in Engines, m \in PoolMethods}

LRNParams ==
    {[DefaultParam(n, 1) EXCEPT
        !.lrn_param = [engine |-> e, norm_region |-> r, local_size |-> l]] :
        n \in LayerNames, e \in Engines, r \in NormRegions, l \in LocalSizes}

ReLUParams ==
    {[DefaultParam(n, 1) EXCEPT !.relu_param = [engine |-> e]] :
        n \in LayerNames, e \in Engines}

SigmoidParams ==
    {[DefaultParam(n, 1) EXCEPT !.sigmoid_param = [engine |-> e]] :
        n \in LayerNames, e \in Engines}

SoftmaxParams ==
    {[DefaultParam(n, 1) EXCEPT !.softmax_param = [engine |-> e]] :
        n \in LayerNames, e \in Engines}

TanHParams ==
    {[DefaultParam(n, 1) EXCEPT !.tanh_param = [engine |-> e]] :
        n \in LayerNames, e \in Engines}

(***************************************************************************)
(* Factory actions: one call of one creator.  A fatal error has ended the  *)
(* process, so no call follows it.                                         *)
(***************************************************************************)
NoCall == [layer |-> "NULL", fatal |-> FALSE, engine |-> "DEFAULT", log |-> <<>>]

InitFactory ==
    /\ USE_CUDNN \in BOOLEAN
    /\ creator = "none"
    /\ param = DefaultParam("layerA", 1)
    /\ ret = NoCall

IdleFactory ==
    /\ USE_CUDNN = FALSE
    /\ creator = "none"
    /\ param = DefaultParam("layerA", 1)
    /\ ret = NoCall

Called(kind, p, r) ==
    /\ ~ret.fatal
    /\ creator' = kind
    /\ param' = p
    /\ ret' = r
    /\ UNCHANGED <<USE_CUDNN, registry_vars, slice_vars>>

CallConvolution ==
    \E p \in ConvolutionParams :
        Called("Convolution", p, GetConvolutionLayer(p, USE_CUDNN))

CallPooling ==
    \E p \in PoolingParams : Called("Pooling", p, GetPoolingLayer(p, USE_CUDNN))

CallLRN ==
    \E p \in LRNParams : Called("LRN", p, GetLRNLayer(p, USE_CUDNN))

CallReLU ==
    \E p \in ReLUParams : Called("ReLU", p, GetReLULayer(p, USE_CUDNN))

CallSigmoid ==
    \E p \in SigmoidParams : Called("Sigmoid", p, GetSigmoidLayer(p, USE_CUDNN))

CallSoftmax ==
    \E p \in SoftmaxParams : Called("Softmax", p, GetSoftmaxLayer(p, USE_CUDNN))

CallTanH ==
    \E p \in TanHParams : Called("TanH", p, GetTanHLayer(p, USE_CUDNN))

NextFactory ==
    \/ CallConvolution
    \/ CallPooling
    \/ CallLRN
    \/ CallReLU
    \/ CallSigmoid
    \/ CallSoftmax
    \/ CallTanH

(***************************************************************************)
(* The registry.  layer_factory.cpp registers its creators with            *)
(* REGISTER_LAYER_CREATOR (lines 84, 127, 171, 200, 229, 258, 287, 305);   *)
(* the registry itself (caffe/layer_factory.hpp) is modelled from its      *)
(* contract: register(type, creator) is fatal when the type is present,    *)
(* lookup(type) is fatal when it is absent.                                *)
(***************************************************************************)
Entry(type, fn) == [type |-> type, creator |-> fn]

FactoryRegistrations_CopyPaste(python) ==
    <<Entry("Convolution", "GetConvolutionLayer"),
      Entry("Pooling", "GetPoolingLayer"),
      Entry("LRN", "GetLRNLayer"),
      Entry("ReLU", "GetReLULayer"),
      Entry("Sigmoid", "GetSigmoidLayer"),
      Entry("Softmax", "GetSoftmaxLayer"),
      Entry("Sigmoid", "GetTanHLayer")>>
    \o (IF python THEN <<Entry("Python", "GetPythonLayer")>> ELSE <<>>)

\* The REGISTER_LAYER_CREATOR lines of the file, in the order they run.
FactoryRegistrations(python) ==
    <<Entry("Convolution", "GetConvolutionLayer"),
      Entry("Pooling", "GetPoolingLayer"),
      Entry("LRN", "GetLRNLayer"),
      Entry("ReLU", "GetReLULayer"),
      Entry("Sigmoid", "GetSigmoidLayer"),
      Entry("Softmax", "GetSoftmaxLayer"),
      Entry("TanH", "GetTanHLayer")>>
    \o (IF python THEN <<Entry("Python", "GetPythonLayer")>> ELSE <<>>)

FactoryCreators ==
    {"GetConvolutionLayer", "GetPoolingLayer", "GetLRNLayer", "GetReLULayer",
     "GetSigmoidLayer", "GetSoftmaxLayer", "GetTanHLayer", "GetPythonLayer"}

\* Registrations made by other files of the program: layers registered with
\* their constructor as creator, and a type that collides with the factory's.
ElsewhereEntries ==
    {Entry("Slice", "Creator_SliceLayer"),
     Entry("Slice", "Creator_OtherSlice"),
     Entry("Concat", "Creator_ConcatLayer"),
     Entry("Convolution", "Creator_ConvolutionLayer")}

LookupTypes == {"Convolution", "TanH", "Slice", "Python", "Unknown"}

Present(reg, type) == \E e \in reg : e.type = type

\* register: fatal on a type that is present, else the entry is added.
AddCreator(reg, e) ==
    IF Present(reg, e.type)
    THEN [registry |-> reg, fatal |-> TRUE]
    ELSE [registry |-> reg \cup {e}, fatal |-> FALSE]

\* lookup: the creator registered for the type, fatal when there is none.
CreateLayer(reg, type) ==
    IF Present(reg, type)
    THEN [creator |-> (CHOOSE e \in reg : e.type = type).creator, fatal |-> FALSE]
    ELSE [creator |-> "NULL", fatal |-> TRUE]

InitRegistry ==
    /\ WITH_PYTHON_LAYER \in BOOLEAN
    /\ registry = {}
    /\ registered = 0
    /\ reg_fatal = FALSE
    /\ reg_last = [op |-> "none", type |-> "", creator |-> ""]

IdleRegistry ==
    /\ WITH_PYTHON_LAYER = FALSE
    /\ registry = {}
    /\ registered = 0
    /\ reg_fatal = FALSE
    /\ reg_last = [op |-> "none", type |-> "", creator |-> ""]

Register(e) ==
    LET r == AddCreator(registry, e)
    IN  /\ registry' = r.registry
        /\ reg_fatal' = r.fatal
        /\ reg_last' = [op |-> "register", type |-> e.type, creator |-> e.creator]

\* The next REGISTER_LAYER_CREATOR line of layer_factory.cpp runs.
RegisterLayerCreator ==
    /\ ~reg_fatal
    /\ registered < Len(FactoryRegistrations(WITH_PYTHON_LAYER))
    /\ Register(FactoryRegistrations(WITH_PYTHON_LAYER)[registered + 1])
    /\ registered' = registered + 1
    /\ UNCHANGED <<WITH_PYTHON_LAYER, factory_vars, slice_vars>>

\* A registration of another file runs.
RegisterElsewhere ==
    /\ ~reg_fatal
    /\ reg_last.op # "lookup"
    /\ \E e \in ElsewhereEntries : Register(e)
    /\ UNCHANGED <<WITH_PYTHON_LAYER, registered, factory_vars, slice_vars>>

\* The network builder looks a type up, once this file's registrations ran.
Lookup ==
    /\ ~reg_fatal
    /\ registered = Len(FactoryRegistrations(WITH_PYTHON_LAYER))
    /\ \E type \in LookupTypes :
         LET r == CreateLayer(registry, type)
         IN  /\ reg_fatal' = r.fatal
             /\ reg_last' = [op |-> "lookup", type |-> type, creator |-> r.creator]
    /\ UNCHANGED <<WITH_PYTHON_LAYER, registry, registered, factory_vars, slice_vars>>

NextRegistry ==
    \/ RegisterLayerCreator
    \/ RegisterElsewhere
    \/ Lookup

(***************************************************************************)
(* The slice layer.  slice_layer.hpp declares the layer (its members at    *)
(* lines 46-50, one input at line 33, at least one output at line 34);     *)
(* LayerSetUp, Reshape and Backward are modelled from their contract.      *)
(* Buffers are row-major and indexed from 0; axes are numbered from 0, so   *)
(* axis a of a shape is shape[a + 1].                                      *)
(***************************************************************************)
ExactNumBottomBlobs == 1

MinTopBlobs == 1

Shapes == {<<a, b, c>> : a \in 1..MaxDim, b \in 1..MaxDim, c \in 1..MaxInner}

\* The num or the channel dimension.
SliceAxes == {0, 1}

SliceParams ==
    [axis : SliceAxes, slice_point : SeqsUpTo(0..MaxDim, MaxTops - 1)]

RECURSIVE Product(_, _, _)
\* Product of shape[lo..hi] (1 when the range is empty): Blob::count(lo, hi).
Product(shape, lo, hi) ==
    IF lo > hi THEN 1 ELSE shape[lo] * Product(shape, lo + 1, hi)

Count(shape) == Product(shape, 1, Len(shape))

\* The partition invariant: explicit boundaries are as many as the outputs
\* less one, strictly increasing and strictly inside the axis; without them
\* the outputs divide the axis evenly.
ValidPartition(points, tops, extent) ==
    IF Len(points) # 0
    THEN /\ Len(points) = tops - 1
         /\ \A i \in 1..Len(points) : 0 < points[i] /\ points[i] < extent
         /\ \A i \in 1..(Len(points) - 1) : points[i] < points[i + 1]
    ELSE extent % tops = 0

PartitionWidths_InclusivePoint(points, slices, extent) ==
    IF Len(points) # 0
    THEN [i \in 1..(Len(points) + 1) |->
            (IF i <= Len(points) THEN points[i] + 1 ELSE extent)
            - (IF i = 1 THEN 0 ELSE points[i - 1] + 1)]
    ELSE [i \in 1..slices |-> extent \div slices]

\* The extent of each output along the axis.
PartitionWidths(points, slices, extent) ==
    IF Len(points) # 0
    THEN [i \in 1..(Len(points) + 1) |->
            (IF i <= Len(points) THEN points[i] ELSE extent)
            - (IF i = 1 THEN 0 ELSE points[i - 1])]
    ELSE [i \in 1..slices |-> extent \div slices]

\* A gradient buffer of n elements, every element v.
Buffer(n, v) == [j \in 0..(n - 1) |-> v]

Untouched == <<0, 0>>

InitSlice ==
    /\ layer_state = "uninitialized"
    /\ slice_param = [axis |-> 1, slice_point |-> <<>>]
    /\ num_top = MinTopBlobs
    /\ shape_changed = FALSE
    /\ slice_axis_ = 1
    /\ slice_point_ = <<>>
    /\ num_slices_ = 0
    /\ slice_size_ = 0
    /\ outer_count = 0
    /\ count_ = 0
    /\ bottom_shape = <<1, 1, 1>>
    /\ top_shape = <<>>
    /\ top_diff = <<>>
    /\ bottom_diff = Buffer(0, Untouched)
    /\ backward_done = "none"

\* LayerSetUp: reads the axis and the boundaries and checks the partition
\* against the input; a malformed partition is a fatal configuration error.
LayerSetUp ==
    /\ layer_state = "uninitialized"
    /\ \E sp \in SliceParams, tops \in MinTopBlobs..MaxTops, shape \in Shapes :
         IF ValidPartition(sp.slice_point, tops, shape[sp.axis + 1])
         THEN /\ layer_state' = "configured"
              /\ slice_param' = sp
              /\ num_top' = tops
              /\ shape_changed' = FALSE
              /\ bottom_shape' = shape
              /\ slice_axis_' = sp.axis
              /\ slice_point_' = sp.slice_point
              /\ num_slices_' = IF Len(sp.slice_point) # 0
                                THEN Len(sp.slice_point) + 1 ELSE tops
              /\ UNCHANGED <<slice_size_, outer_count, count_, top_shape,
                             top_diff, bottom_diff, backward_done>>
         ELSE /\ layer_state' = "fatal"
              /\ UNCHANGED <<slice_param, num_top, shape_changed, bottom_shape,
                             slice_axis_, slice_point_, num_slices_, slice_size_,
                             outer_count, count_, top_shape, top_diff,
                             bottom_diff, backward_done>>
    /\ UNCHANGED <<factory_vars, registry_vars>>

\* The shapes Reshape gives the outputs: the input's, with the partition
\* width along the axis.
TopShapes(shape, axis, widths) ==
    [i \in 1..Len(widths) |-> [shape EXCEPT ![axis + 1] = widths[i]]]

RECURSIVE SumCounts(_, _)
SumCounts(shapes, i) ==
    IF i > Len(shapes) THEN 0 ELSE Count(shapes[i]) + SumCounts(shapes, i + 1)

\* Reshape: recomputes the shape bookkeeping from the current input shape,
\* re-verifies the partition and the element count, and sizes the buffers.
Reshape ==
    /\ layer_state \in {"configured", "shaped"}
    /\ \E shape \in Shapes :
         LET extent == shape[slice_axis_ + 1]
             widths == PartitionWidths(slice_point_, num_slices_, extent)
             tops   == TopShapes(shape, slice_axis_, widths)
             count  == SumCounts(tops, 1)
         IN  IF /\ ValidPartition(slice_point_, num_top, extent)
                /\ count = Count(shape)
             THEN /\ layer_state' = "shaped"
                  /\ bottom_shape' = shape
                  /\ shape_changed' = (shape # bottom_shape)
                  /\ outer_count' = Product(shape, 1, slice_axis_)
                  /\ slice_size_' = Product(shape, slice_axis_ + 2, Len(shape))
                  /\ top_shape' = tops
                  /\ count_' = count
                  /\ top_diff' = [i \in 1..Len(tops) |->
                                    Buffer(Count(tops[i]), Untouched)]
                  /\ bottom_diff' = Buffer(Count(shape), Untouched)
                  /\ backward_done' = "none"
             ELSE /\ layer_state' = "fatal"
                  /\ UNCHANGED <<bottom_shape, shape_changed, outer_count, slice_size_, top_shape,
                                 count_, top_diff, bottom_diff, backward_done>>
    /\ UNCHANGED <<slice_param, num_top, slice_axis_, slice_point_,
                   num_slices_, factory_vars, registry_vars>>

(***************************************************************************)
(* Backward.  The output gradients are copied back into the input gradient *)
(* buffer, each contiguous run to the offset it was sliced from.           *)
(***************************************************************************)
\* caffe_copy(n, src + src_off, dst + dst_off).
CopyRun(dst, dst_off, src, src_off, n) ==
    [j \in DOMAIN dst |->
        IF dst_off <= j /\ j < dst_off + n
        THEN src[src_off + (j - dst_off)]
        ELSE dst[j]]

RECURSIVE CopyTop(_, _, _, _, _, _, _, _)
\* One output: for each position n of outer_count, its run of
\* slice_size x width elements goes to its offset in the input buffer.
CopyTop(bdiff, tdiff, width, offset_slice_axis, extent, size, outer, n) ==
    IF n >= outer
    THEN bdiff
    ELSE CopyTop(CopyRun(bdiff, (n * extent + offset_slice_axis) * size,
                         tdiff, n * width * size, width * size),
                 tdiff, width, offset_slice_axis, extent, size, outer, n + 1)

RECURSIVE Backward_cpu_NoOffset(_, _, _, _, _, _, _, _)
Backward_cpu_NoOffset(bdiff, tdiffs, tshapes, axis, extent, size, outer, i) ==
    IF i > Len(tdiffs)
    THEN bdiff
    ELSE LET width == tshapes[i][axis + 1]
         IN  Backward_cpu_NoOffset(
                 CopyTop(bdiff, tdiffs[i], width, 0, extent, size, outer, 0),
                 tdiffs, tshapes, axis, extent, size, outer, i + 1)

RECURSIVE OffsetOf(_, _, _)
\* offset_slice_axis when output i is reached: the widths before it.
OffsetOf(tshapes, axis, i) ==
    IF i <= 1 THEN 0
    ELSE OffsetOf(tshapes, axis, i - 1) + tshapes[i - 1][axis + 1]

RECURSIVE Backward_cpu(_, _, _, _, _, _, _, _)
\* The generic implementation: the outputs in order, the offset along the
\* axis advancing by each output's width.
Backward_cpu(bdiff, tdiffs, tshapes, axis, extent, size, outer, i) ==
    IF i > Len(tdiffs)
    THEN bdiff
    ELSE LET width == tshapes[i][axis + 1]
         IN  Backward_cpu(
                 CopyTop(bdiff, tdiffs[i], width, OffsetOf(tshapes, axis, i),
                         extent, size, outer, 0),
                 tdiffs, tshapes, axis, extent, size, outer, i + 1)

\* The accelerated kernel's index arithmetic: element `index` of an output
\* belongs at this position of the input.
BottomIndex(index, width, offset_slice_axis, extent, size) ==
    LET total_slice_size == size * width
        slice_num   == index \div total_slice_size
        slice_index == index % total_slice_size
    IN  slice_index + (slice_num * extent + offset_slice_axis) * size

RECURSIVE Backward_gpu(_, _, _, _, _, _, _, _)
\* The accelerated implementation: one thread per output element, each
\* writing its own input position.
Backward_gpu(bdiff, tdiffs, tshapes, axis, extent, size, outer, i) ==
    IF i > Len(tdiffs)
    THEN bdiff
    ELSE LET width  == tshapes[i][axis + 1]
             offset == OffsetOf(tshapes, axis, i)
             hits(j) == {index \in DOMAIN tdiffs[i] :
                            BottomIndex(index, width, offset, extent, size) = j}
             next == [j \in DOMAIN bdiff |->
                        IF hits(j) # {}
                        THEN tdiffs[i][CHOOSE index \in hits(j) : TRUE]
                        ELSE bdiff[j]]
         IN  Backward_gpu(next, tdiffs, tshapes, axis, extent, size, outer, i + 1)

\* The next layer (or a test) writes a gradient into every output: element k
\* of output i is tagged <<i, k>>, so every output position is told apart.
FillTopDiff ==
    /\ layer_state = "shaped"
    /\ top_diff' = [i \in 1..Len(top_shape) |->
                      [k \in 0..(Count(top_shape[i]) - 1) |-> <<i, k>>]]
    /\ top_diff' # top_diff
    /\ backward_done' = "none"
    /\ UNCHANGED <<layer_state, slice_param, num_top, shape_changed, slice_axis_,
                   slice_point_, num_slices_, slice_size_, outer_count, count_,
                   bottom_shape, top_shape, bottom_diff,
                   factory_vars, registry_vars>>

\* Backward on the generic or the accelerated path; with the propagate flag
\* of the input cleared, the input gradient is left as it is.
Backward ==
    /\ layer_state = "shaped"
    /\ \E propagate_down \in BOOLEAN, mode \in {"cpu", "gpu"} :
         LET extent == bottom_shape[slice_axis_ + 1]
         IN  IF ~propagate_down
             THEN /\ bottom_diff' = bottom_diff
                  /\ backward_done' = "skipped"
             ELSE /\ bottom_diff' =
                       IF mode = "cpu"
                       THEN Backward_cpu(bottom_diff, top_diff, top_shape,
                                         slice_axis_, extent, slice_size_,
                                         outer_count, 1)
                       ELSE Backward_gpu(bottom_diff, top_diff, top_shape,
                                         slice_axis_, extent, slice_size_,
                                         outer_count, 1)
                  /\ backward_done' = mode
    /\ UNCHANGED <<layer_state, slice_param, num_top, shape_changed, slice_axis_,
                   slice_point_, num_slices_, slice_size_, outer_count, count_,
                   bottom_shape, top_shape, top_diff,
                   factory_vars, registry_vars>>

NextSlice ==
    \/ LayerSetUp
    \/ Reshape
    \/ FillTopDiff
    \/ Backward

(***************************************************************************)
(* Specifications.                                                         *)
(***************************************************************************)
FactoryInit == InitFactory /\ IdleRegistry /\ InitSlice

RegistryInit == IdleFactory /\ InitRegistry /\ InitSlice

SliceInit == IdleFactory /\ IdleRegistry /\ InitSlice

SpecFactory == FactoryInit /\ [][NextFactory]_vars

SpecRegistry == RegistryInit /\ [][NextRegistry]_vars

SpecSlice == SliceInit /\ [][NextSlice]_vars

Init == InitFactory /\ InitRegistry /\ InitSlice

Next == NextFactory \/ NextRegistry \/ NextSlice

Spec == Init /\ [][Next]_vars

(***************************************************************************)
(* Properties of the factory (SpecFactory).                                *)
(***************************************************************************)
GenericLayers ==
    {"ConvolutionLayer", "PoolingLayer", "LRNLayer", "ReLULayer",
     "SigmoidLayer", "SoftmaxLayer", "TanHLayer"}

\* The engine the descriptor asks the called creator for.
Requested ==
    CASE creator = "Convolution" -> param.convolution_param.engine
      [] creator = "Pooling"     -> param.pooling_param.engine
      [] creator = "LRN"         -> param.lrn_param.engine
      [] creator = "ReLU"        -> param.relu_param.engine
      [] creator = "Sigmoid"     -> param.sigmoid_param.engine
      [] creator = "Softmax"     -> param.softmax_param.engine
      [] creator = "TanH"        -> param.tanh_param.engine
      [] OTHER                   -> "none"

HasDilation ==
    \E i \in DOMAIN param.convolution_param.dilation :
        param.convolution_param.dilation[i] > 1

\* The configuration is one the accelerated backend cannot express.
Infeasible ==
    \/ creator = "Convolution" /\ HasDilation
    \/ creator = "Pooling" /\ (param.top_size > 1 \/ param.pooling_param.pool = "MAX")
    \/ /\ creator = "LRN"
       /\ param.lrn_param.norm_region # "WITHIN_CHANNEL"
       /\ param.lrn_param.local_size > CUDNN_LRN_MAX_N

GenericReturned == ~ret.fatal /\ ret.layer \in GenericLayers

\* The call ended in a fatal error whose diagnostic names the layer, and
\* returned nothing.
FatalNamingLayer ==
    /\ ret.fatal
    /\ ret.layer = "NULL"
    /\ \E l \in Range(ret.log) :
         l.severity = "FATAL" /\ param.name \in Range(l.msg)

\* C1: GetConvolutionLayer on a descriptor with a dilation factor > 1 ends
\* in a fatal error, returning nothing, when CUDNN is requested, and returns
\* the generic ConvolutionLayer without a fatal error when DEFAULT is
\* requested; in both builds and for every other parameter.
C1_ConvolutionDilation ==
    (creator = "Convolution" /\ HasDilation) =>
        /\ Requested = "CUDNN" => (ret.fatal /\ ret.layer = "NULL")
        /\ Requested = "DEFAULT" => (~ret.fatal /\ ret.layer = "ConvolutionLayer")

C1_Witness ==
    /\ creator = "Convolution" /\ HasDilation /\ USE_CUDNN
    /\ Requested = "CUDNN"
    /\ ret.fatal /\ ret.layer = "NULL"

\* C2 as stated: GetPoolingLayer with MAX pooling returns the generic
\* PoolingLayer for DEFAULT, CAFFE and CUDNN, for every number of tops and
\* in both builds, and never ends in a fatal error.
C2_Original ==
    (/\ creator = "Pooling"
     /\ param.pooling_param.pool = "MAX"
     /\ Requested \in {"DEFAULT", "CAFFE", "CUDNN"}) =>
        (~ret.fatal /\ ret.layer = "PoolingLayer")

\* C2 as amended: GetPoolingLayer with MAX pooling never returns the
\* accelerated pooling layer; it returns the generic PoolingLayer without a
\* fatal error for DEFAULT and CAFFE in both builds and for CUDNN in a build
\* with the backend, and ends in a fatal error for CUDNN in a build without.
C2_MaxPooling ==
    (/\ creator = "Pooling"
     /\ param.pooling_param.pool = "MAX"
     /\ Requested \in {"DEFAULT", "CAFFE", "CUDNN"}) =>
        /\ ret.layer # "CuDNNPoolingLayer"
        /\ IF Requested = "CUDNN" /\ ~USE_CUDNN
           THEN ret.fatal /\ ret.layer = "NULL"
           ELSE ~ret.fatal /\ ret.layer = "PoolingLayer"

C2_Witness ==
    /\ creator = "Pooling" /\ param.pooling_param.pool = "MAX"
    /\ param.top_size = 1
    /\ USE_CUDNN /\ Requested = "CUDNN"
    /\ ret.layer = "PoolingLayer"

\* What the same descriptor yields when CAFFE is requested.
GenericPoolingChoice ==
    GetPoolingLayer([param EXCEPT !.pooling_param.engine = "CAFFE"], USE_CUDNN).layer

\* C3 as stated: GetPoolingLayer with more than one top and DEFAULT or CUDNN
\* requested returns the generic PoolingLayer, the choice the descriptor
\* yields with CAFFE requested, for every pooling method and in both builds.
C3_Original ==
    (/\ creator = "Pooling"
     /\ param.top_size > 1
     /\ Requested \in {"DEFAULT", "CUDNN"}) =>
        /\ ~ret.fatal
        /\ ret.layer = "PoolingLayer"
        /\ ret.layer = GenericPoolingChoice

\* C3 as amended: the same, except that CUDNN requested in a build without
\* the backend ends in a fatal error and returns nothing.
C3_MultipleTops ==
    (/\ creator = "Pooling"
     /\ param.top_size > 1
     /\ Requested \in {"DEFAULT", "CUDNN"}) =>
        IF Requested = "CUDNN" /\ ~USE_CUDNN
        THEN ret.fatal /\ ret.layer = "NULL"
        ELSE /\ ~ret.fatal
             /\ ret.layer = "PoolingLayer"
             /\ ret.layer = GenericPoolingChoice

C3_Witness ==
    /\ creator = "Pooling" /\ param.top_size > 1
    /\ param.pooling_param.pool = "AVE"
    /\ USE_CUDNN /\ Requested = "DEFAULT"
    /\ ret.engine = "CUDNN" /\ ret.layer = "PoolingLayer"

\* C4 as stated: a creator returns the generic layer for a request other
\* than CAFFE only when the request was DEFAULT, and CUDNN requested with a
\* configuration the backend cannot express ends in a fatal error.
C4_Original ==
    /\ (GenericReturned /\ Requested # "CAFFE") => Requested = "DEFAULT"
    /\ (Requested = "CUDNN" /\ Infeasible) => (ret.fatal /\ ret.layer = "NULL")

\* C4 as amended: only GetConvolutionLayer ends in a fatal error on CUDNN
\* requested with an infeasible configuration (dilation); in a build with
\* the backend GetPoolingLayer (several tops, or MAX) and GetLRNLayer
\* (across channels, local_size over the limit) return the generic layer
\* for CUDNN requested as they do for DEFAULT, and these are the only
\* generic layers returned for a request that is neither DEFAULT nor CAFFE;
\* in a build without the backend CUDNN requested is fatal for every kind.
C4_Fallback ==
    /\ (GenericReturned /\ Requested \notin {"CAFFE", "DEFAULT"}) =>
          /\ Requested = "CUDNN" /\ USE_CUDNN
          /\ creator \in {"Pooling", "LRN"}
          /\ Infeasible
    /\ (Requested = "CUDNN" /\ Infeasible) =>
          IF creator = "Convolution" \/ ~USE_CUDNN
          THEN ret.fatal /\ ret.layer = "NULL"
          ELSE GenericReturned
    /\ (Requested = "DEFAULT" /\ Infeasible) => GenericReturned
    /\ (Requested = "CUDNN" /\ ~USE_CUDNN) => (ret.fatal /\ ret.layer = "NULL")

C4_Witness ==
    /\ creator = "LRN" /\ USE_CUDNN /\ Requested = "CUDNN"
    /\ Infeasible
    /\ ret.layer = "LRNLayer" /\ ~ret.fatal

\* No compiled-in case matches the engine left after DEFAULT resolution.
NoCase == ret.engine \notin ({"CAFFE"} \cup (IF USE_CUDNN THEN {"CUDNN"} ELSE {}))

\* C5 as stated: each creator ends in a fatal error naming the layer, and
\* returns nothing, when no compiled-in case matches the engine left after
\* DEFAULT resolution; in every other case it returns one non-null layer.
C5_Original ==
    creator # "none" =>
        IF NoCase
        THEN FatalNamingLayer
        ELSE ~ret.fatal /\ ret.layer # "NULL"

\* C5 as amended: the same, with one more fatal case: GetConvolutionLayer
\* with engine CUDNN (compiled in) and a dilation factor > 1 also ends in a
\* fatal error naming the layer and returns nothing.
C5_UnknownEngine ==
    creator # "none" =>
        IF NoCase \/ (creator = "Convolution" /\ ret.engine = "CUDNN" /\ HasDilation)
        THEN FatalNamingLayer
        ELSE ~ret.fatal /\ ret.layer # "NULL"

C5_Witness ==
    /\ creator = "ReLU" /\ ~USE_CUDNN /\ Requested = "CUDNN"
    /\ FatalNamingLayer

\* C6: GetLRNLayer resolves DEFAULT to CUDNN in a build with the backend and
\* to CAFFE otherwise; CAFFE gives LRNLayer; CUDNN (compiled in) gives
\* CuDNNLCNLayer within channel whatever the local size, else LRNLayer when
\* local_size > CUDNN_LRN_MAX_N and CuDNNLRNLayer when it is at or below.
C6_LRN ==
    creator = "LRN" =>
        LET lrn == param.lrn_param
            engine == IF lrn.engine = "DEFAULT"
                      THEN IF USE_CUDNN THEN "CUDNN" ELSE "CAFFE"
                      ELSE lrn.engine
        IN  /\ ret.engine = engine
            /\ engine = "CAFFE" => (~ret.fatal /\ ret.layer = "LRNLayer")
            /\ (engine = "CUDNN" /\ USE_CUDNN) =>
                  /\ ~ret.fatal
                  /\ ret.layer =
                        IF lrn.norm_region = "WITHIN_CHANNEL" THEN "CuDNNLCNLayer"
                        ELSE IF lrn.local_size > CUDNN_LRN_MAX_N THEN "LRNLayer"
                        ELSE "CuDNNLRNLayer"

C6_Witness ==
    /\ creator = "LRN" /\ USE_CUDNN /\ Requested = "DEFAULT"
    /\ param.lrn_param.norm_region = "ACROSS_CHANNELS"
    /\ param.lrn_param.local_size = CUDNN_LRN_MAX_N
    /\ ret.layer = "CuDNNLRNLayer"

\* C10 as stated: every automatic fallback (dispatch on CUDNN, generic layer
\* returned) logs an informational notice that names the layer and gives
\* the reason.
C10_Original ==
    (ret.engine = "CUDNN" /\ GenericReturned) =>
        \E l \in Range(ret.log) :
            /\ l.severity = "INFO"
            /\ param.name \in Range(l.msg)
            /\ Range(l.msg) # {param.name}

(***************************************************************************)
(* Properties of the registry (SpecRegistry).                              *)
(***************************************************************************)
OneCreatorPerType ==
    \A a \in registry, b \in registry : a.type = b.type => a = b

\* A registration of layer_factory.cpp only ever collides with an entry of
\* another file: its own type strings are pairwise distinct.
FactoryTypesDistinct ==
    (reg_fatal /\ reg_last.op = "register" /\ reg_last.creator \in FactoryCreators) =>
        \A e \in registry :
            e.type = reg_last.type => e.creator \notin FactoryCreators

\* C7: the registry holds at most one creator per type string after any
\* sequence of register calls; registering a type that is present is a
\* fatal error and changes nothing; no entry is ever removed or replaced;
\* and the registrations of layer_factory.cpp use pairwise distinct types.
C7_Registry ==
    /\ [](OneCreatorPerType /\ FactoryTypesDistinct)
    /\ [][registry \subseteq registry']_vars
    /\ [][(reg_last'.op = "register" /\ Present(registry, reg_last'.type)) =>
            (reg_fatal' /\ registry' = registry)]_vars

C7_Witness ==
    /\ WITH_PYTHON_LAYER
    /\ registered = Len(FactoryRegistrations(WITH_PYTHON_LAYER))
    /\ reg_fatal /\ reg_last.op = "register"
    /\ Cardinality(registry) = registered + 2

(***************************************************************************)
(* Properties of the slice layer (SpecSlice).                              *)
(***************************************************************************)
AxisExtent == bottom_shape[slice_axis_ + 1]

\* Where output i starts along the axis, from the configuration.
SliceStart(i) ==
    IF i = 1 THEN 0
    ELSE IF Len(slice_point_) # 0 THEN slice_point_[i - 1]
    ELSE (i - 1) * (AxisExtent \div num_slices_)

\* Where output i ends along the axis (exclusive).
SliceEnd(i) ==
    IF Len(slice_point_) # 0
    THEN IF i = num_top THEN AxisExtent ELSE slice_point_[i]
    ELSE i * (AxisExtent \div num_slices_)

RECURSIVE SumExtents(_)
SumExtents(i) ==
    IF i > Len(top_shape) THEN 0
    ELSE top_shape[i][slice_axis_ + 1] + SumExtents(i + 1)

\* C8: after every Reshape, output i has extent slice_point[i] -
\* slice_point[i-1] along the axis (0 and the axis extent as outer
\* boundaries) with explicit boundaries, and axis extent / num_slices
\* without; every other dimension is the input's; and the extents along the
\* axis sum to the input's axis extent.
C8_SliceReshape ==
    layer_state = "shaped" =>
        /\ Len(top_shape) = num_top
        /\ \A i \in 1..num_top :
             /\ top_shape[i][slice_axis_ + 1] =
                   IF Len(slice_point_) # 0
                   THEN SliceEnd(i) - SliceStart(i)
                   ELSE AxisExtent \div num_slices_
             /\ \A d \in DOMAIN bottom_shape :
                   d # slice_axis_ + 1 => top_shape[i][d] = bottom_shape[d]
        /\ SumExtents(1) = AxisExtent

C8_Witness ==
    /\ layer_state = "shaped" /\ shape_changed
    /\ num_top = 3 /\ Len(slice_point_) = 2
    /\ top_shape[1][slice_axis_ + 1] # top_shape[2][slice_axis_ + 1]
    /\ slice_size_ > 1

\* The output and the position in it that input position j comes from:
\* j is (n, a, c) in outer x axis x inner coordinates.
SourceOf(j) ==
    LET n == j \div (AxisExtent * slice_size_)
        a == (j \div slice_size_) % AxisExtent
        c == j % slice_size_
        i == CHOOSE t \in 1..num_top : SliceStart(t) <= a /\ a < SliceEnd(t)
        w == SliceEnd(i) - SliceStart(i)
    IN  <<i, (n * w + (a - SliceStart(i))) * slice_size_ + c>>

TopDiffFilled == \A i \in 1..Len(top_diff) : \A k \in DOMAIN top_diff[i] :
                    top_diff[i][k] = <<i, k>>

\* C9: after Backward with the propagate flag set, on the generic and on
\* the accelerated path alike, the input gradient is the concatenation of
\* the output gradients in axis order: each input position holds the value
\* of its own output position, and each output position lands on exactly
\* one input position.
C9_SliceBackward ==
    (layer_state = "shaped" /\ backward_done \in {"cpu", "gpu"}) =>
        /\ DOMAIN bottom_diff = 0..(Count(bottom_shape) - 1)
        /\ \A j \in DOMAIN bottom_diff :
             bottom_diff[j] = top_diff[SourceOf(j)[1]][SourceOf(j)[2]]
        /\ TopDiffFilled =>
             \A i \in 1..Len(top_diff) : \A k \in DOMAIN top_diff[i] :
                Cardinality({j \in DOMAIN bottom_diff : bottom_diff[j] = <<i, k>>}) = 1

C9_Witness ==
    /\ layer_state = "shaped" /\ backward_done = "gpu"
    /\ TopDiffFilled
    /\ num_top = 3 /\ Len(slice_point_) = 2
    /\ outer_count > 1 /\ slice_size_ > 1
    /\ bottom_diff[Count(bottom_shape) - 1] = <<3, Count(top_shape[3]) - 1>>

====
